---- MODULE Spec2Model ----
(***************************************************************************)
(* Matrix<T> of src/main.rs: a dense row-major matrix over a Numeric       *)
(* scalar, with new, identity, the matrix! literal, row indexing, size,    *)
(* addition, multiplication and transpose.  The scalar is instantiated at  *)
(* i8, the narrowest signed type of impl_numeric!.                         *)
(***************************************************************************)
EXTENDS Integers, Sequences, FiniteSets, TLC

\* Largest row count, column count, identity order and row index tried.
MaxDim == 2

\* Width in bits of the scalar type (i8).
Bits == 8

\* The client's matrix variables.
Slots == {"x", "y"}

\* The variable bound with let mut, by any constructor; the other one is
\* bound by new or identity and never written.
Mutable == {"x"}

\* Most indexed writes m[i][j] = v the client makes.
MaxWrites == 1

\* Scalars stored by m[i][j] = v.
WriteVals == {100}

VARIABLES
    heap,            \* the matrix each variable holds
    bound,           \* the variables a let has bound
    last,            \* the statement just executed and its outcome
    writes,          \* indexed writes made so far
    overflowChecks   \* whether the build panics on integer overflow or wraps

vars == <<heap, bound, last, writes, overflowChecks>>

----------------------------------------------------------------------------
\* The scalar type: T = i8.

MinT == -(2^(Bits - 1))
MaxT == 2^(Bits - 1) - 1
InRange(n) == MinT <= n /\ n <= MaxT
\* Two's complement wrap-around of an arithmetic result.
Wrap(n) == ((n - MinT) % (2^Bits)) + MinT

\* T::default()
Zero == 0
\* T::one(): 1 as $t
One == 1

----------------------------------------------------------------------------
\* struct Matrix<T> { data, rows, cols }

Mat(r, c, d) == [rows |-> r, cols |-> c, data |-> d]

\* The outcome of a call: how it ended, the matrix it returned (if any) and
\* the number of element writes it made to its result before ending.
Out(kind, res, w) == [kind |-> kind, res |-> res, w |-> w]

\* vec![elem; n]: n copies of elem.
RECURSIVE VecOf(_, _)
VecOf(elem, n) == IF n = 0 THEN <<>> ELSE Append(VecOf(elem, n - 1), elem)

\* Matrix::new: vec![T::default(); rows * cols]
New(r, c) == Mat(r, c, VecOf(Zero, r * c))

\* The range check of &self.data[start..end] in index and index_mut.
RowInBounds(m, i) == i * m.cols + m.cols <= Len(m.data)

\* Index::index: the slice data[index*cols .. index*cols+cols].
Index(m, i) == SubSeq(m.data, i * m.cols + 1, i * m.cols + m.cols)

\* m[i][j] = v through IndexMut::index_mut: the write lands in the backing
\* vector at start + j.
SetAt(m, i, j, v) == [m EXCEPT !.data[i * m.cols + j + 1] = v]

----------------------------------------------------------------------------
\* The operations, each as the function from its operands to its outcome.
\* chk says whether the build checks integer overflow (panic) or wraps.

\* Matrix::identity: the loop over rc, at iteration rc.
RECURSIVE IdentityRun(_, _, _)
IdentityRun(order, rc, data) ==
    IF rc >= order THEN Out("ok", <<data>>, rc)
    ELSE IF ~RowInBounds(data, rc) THEN Out("oob", <<>>, rc)
    ELSE IdentityRun(order, rc + 1, SetAt(data, rc, rc, One))

\* Matrix::identity with the loop started at 1: the first diagonal element is
\* left zero.
IdentityFromSecond(order) == IdentityRun(order, 1, New(order, order))

\* Matrix::identity
Identity(order) == IdentityRun(order, 0, New(order, order))

\* matrix!: rows is the number of rows, cols the length of the first row,
\* data the rows flattened, whatever their lengths.
RECURSIVE Flatten(_)
Flatten(rs) == IF rs = <<>> THEN <<>> ELSE Head(rs) \o Flatten(Tail(rs))

MatrixLiteral(rs) == Mat(Len(rs), Len(rs[1]), Flatten(rs))

\* Matrix::multiplication: the three nested loops, flattened to the step
\* t = (i * matrix.cols + j) * self.cols + k.
RECURSIVE MulRun(_, _, _, _, _)
MulRun(A, B, chk, t, result) ==
    LET n == A.cols
        c == B.cols
        i == t \div (c * n)
        j == (t \div n) % c
        k == t % n
    IN  IF t >= A.rows * c * n THEN Out("ok", <<result>>, t)
        ELSE IF ~RowInBounds(A, i) \/ ~RowInBounds(B, k) THEN Out("oob", <<>>, t)
        ELSE LET prod == Index(A, i)[k + 1] * Index(B, k)[j + 1]
                 sum == Index(result, i)[j + 1] + Wrap(prod)
             IN  IF chk /\ (~InRange(prod) \/ ~InRange(sum))
                 THEN Out("overflow", <<>>, t)
                 ELSE MulRun(A, B, chk, t + 1, SetAt(result, i, j, Wrap(sum)))

\* Matrix::multiplication without its assert_eq!.
MultiplicationUnchecked(A, B, chk) == MulRun(A, B, chk, 0, New(A.rows, B.cols))

\* Matrix::multiplication
Multiplication(A, B, chk) ==
    IF A.cols # B.rows THEN Out("assert", <<>>, 0)
    ELSE MulRun(A, B, chk, 0, New(A.rows, B.cols))

\* Matrix::addition: the two nested loops, flattened to t = i * cols + j.
RECURSIVE AddRun(_, _, _, _, _)
AddRun(A, B, chk, t, result) ==
    LET c == A.cols
        i == t \div c
        j == t % c
    IN  IF t >= A.rows * c THEN Out("ok", <<result>>, t)
        ELSE IF ~RowInBounds(A, i) \/ ~RowInBounds(B, i) THEN Out("oob", <<>>, t)
        ELSE LET sum == Index(A, i)[j + 1] + Index(B, i)[j + 1]
             IN  IF chk /\ ~InRange(sum) THEN Out("overflow", <<>>, t)
                 ELSE AddRun(A, B, chk, t + 1, SetAt(result, i, j, Wrap(sum)))

\* Matrix::addition
Addition(A, B, chk) ==
    IF <<A.rows, A.cols>> # <<B.rows, B.cols>> THEN Out("assert", <<>>, 0)
    ELSE AddRun(A, B, chk, 0, New(A.rows, A.cols))

\* Matrix::transpose: the two nested loops, flattened to t = i * cols + j.
RECURSIVE TransposeRun(_, _, _)
TransposeRun(A, t, result) ==
    LET c == A.cols
        i == t \div c
        j == t % c
    IN  IF t >= A.rows * c THEN Out("ok", <<result>>, t)
        ELSE IF ~RowInBounds(A, i) THEN Out("oob", <<>>, t)
        ELSE TransposeRun(A, t + 1, SetAt(result, j, i, Index(A, i)[j + 1]))

\* Matrix::transpose
Transpose(A) == TransposeRun(A, 0, New(A.cols, A.rows))

\* Matrix::size
Size(A) == <<A.rows, A.cols>>

\* impl Mul for Matrix<T>: self * other
Mul(A, B, chk) == Multiplication(A, B, chk)

\* impl Add for Matrix<T>: self + other
Add(A, B, chk) == Addition(A, B, chk)

\* The product of an outcome and a matrix, and of a matrix and an outcome:
\* a panic of the inner product is the panic of the whole expression.
MulLeft(o, C, chk) == IF o.kind = "ok" THEN Mul(o.res[1], C, chk) ELSE o
MulRight(A, o, chk) == IF o.kind = "ok" THEN Mul(A, o.res[1], chk) ELSE o

----------------------------------------------------------------------------
\* The client program: let-bound matrix variables and one statement at a
\* time.  last holds the statement just executed with its outcome; a panic
\* ends the program, otherwise the statement ends and the next one starts.

NoOut == Out("none", <<>>, 0)

Call(op, a, b, c, i, j, v, out, alt, sl, sz) ==
    [op |-> op, a |-> a, b |-> b, c |-> c, i |-> i, j |-> j, v |-> v,
     out |-> out, alt |-> alt, sl |-> sl, sz |-> sz]

Idle == Call("idle", "-", "-", "-", 0, 0, 0, NoOut, NoOut, <<>>, <<>>)

Panics == {"assert", "oob", "oobcol", "overflow"}

Panicked == last.out.kind \in Panics \/ last.alt.kind \in Panics

\* The literals tried: 1..MaxDim rows of c in 0..MaxDim scalars each, but for
\* the last row, which may be one scalar shorter or longer; they hold
\* 100, 2, 3, ... in the order written.
LensOf(n, c, l) == [r \in 1..n |-> IF r = n /\ n > 1 THEN l ELSE c]

LitShapes ==
    {t \in (1..MaxDim) \X (0..MaxDim) \X (0..MaxDim) : t[3] - t[2] \in {-1, 0, 1}}

LitLens == {LensOf(t[1], t[2], t[3]) : t \in LitShapes}

RECURSIVE SumTo(_, _)
SumTo(lens, r) == IF r = 0 THEN 0 ELSE lens[r] + SumTo(lens, r - 1)

LitVal(p) == IF p = 1 THEN 100 ELSE p

LitRows(lens) ==
    [r \in 1..Len(lens) |-> [k \in 1..lens[r] |-> LitVal(SumTo(lens, r - 1) + k)]]

Init ==
    /\ heap = [s \in Slots |-> New(0, 0)]
    /\ bound = {}
    /\ last = Idle
    /\ writes = 0
    /\ overflowChecks \in BOOLEAN

\* let s = Matrix::new(r, c);
DoNew(s, r, c) ==
    /\ last = Idle /\ s \notin bound
    /\ heap' = [heap EXCEPT ![s] = New(r, c)]
    /\ bound' = bound \cup {s}
    /\ last' = Call("new", s, "-", "-", r, c, 0, Out("ok", <<New(r, c)>>, 0),
                    NoOut, <<>>, <<>>)
    /\ UNCHANGED <<writes, overflowChecks>>

\* let s = Matrix::identity(n);
DoIdentity(s, n) ==
    /\ last = Idle /\ s \notin bound
    /\ heap' = [heap EXCEPT ![s] = Identity(n).res[1]]
    /\ bound' = bound \cup {s}
    /\ last' = Call("identity", s, "-", "-", n, 0, 0, Identity(n), NoOut, <<>>, <<>>)
    /\ UNCHANGED <<writes, overflowChecks>>

\* let s = matrix![row, ...];
DoLiteral(s, lens) ==
    /\ last = Idle /\ s \notin bound
    /\ heap' = [heap EXCEPT ![s] = MatrixLiteral(LitRows(lens))]
    /\ bound' = bound \cup {s}
    /\ last' = Call("literal", s, "-", "-", 0, 0, 0,
                    Out("ok", <<MatrixLiteral(LitRows(lens))>>, 0), NoOut, <<>>, lens)
    /\ UNCHANGED <<writes, overflowChecks>>

\* s.size();
DoSize(s) ==
    /\ last = Idle /\ s \in bound
    /\ last' = Call("size", s, "-", "-", 0, 0, 0, Out("ok", <<>>, 0), NoOut,
                    <<>>, Size(heap[s]))
    /\ UNCHANGED <<heap, bound, writes, overflowChecks>>

\* &s[i];
DoIndex(s, i) ==
    /\ last = Idle /\ s \in bound
    /\ last' = IF RowInBounds(heap[s], i)
               THEN Call("index", s, "-", "-", i, 0, 0, Out("ok", <<>>, 0), NoOut,
                         Index(heap[s], i), <<>>)
               ELSE Call("index", s, "-", "-", i, 0, 0, Out("oob", <<>>, 0), NoOut,
                         <<>>, <<>>)
    /\ UNCHANGED <<heap, bound, writes, overflowChecks>>

\* s[i][j] = v;  index_mut(i), then the j-th place of the slice it returned.
DoIndexMut(s, i, j, v) ==
    /\ last = Idle /\ s \in bound /\ writes < MaxWrites
    /\ writes' = writes + 1
    /\ IF ~RowInBounds(heap[s], i)
       THEN /\ last' = Call("index_mut", s, "-", "-", i, j, v, Out("oob", <<>>, 0),
                            NoOut, <<>>, <<>>)
            /\ UNCHANGED heap
       ELSE IF j >= heap[s].cols
       THEN /\ last' = Call("index_mut", s, "-", "-", i, j, v, Out("oobcol", <<>>, 0),
                            NoOut, Index(heap[s], i), <<>>)
            /\ UNCHANGED heap
       ELSE /\ last' = Call("index_mut", s, "-", "-", i, j, v, Out("ok", <<>>, 1),
                            NoOut, Index(heap[s], i), <<>>)
            /\ heap' = [heap EXCEPT ![s] = SetAt(heap[s], i, j, v)]
    /\ UNCHANGED <<bound, overflowChecks>>

\* a.clone() + b.clone();  the operator passes both on to a.addition(&b).
DoAddition(a, b) ==
    /\ last = Idle /\ a \in bound /\ b \in bound
    /\ last' = Call("addition", a, b, "-", 0, 0, 0,
                    Add(heap[a], heap[b], overflowChecks), NoOut, <<>>, <<>>)
    /\ UNCHANGED <<heap, bound, writes, overflowChecks>>

\* a.clone() * b.clone();  the operator passes both on to
\* a.multiplication(&b).
DoMultiplication(a, b) ==
    /\ last = Idle /\ a \in bound /\ b \in bound
    /\ last' = Call("multiplication", a, b, "-", 0, 0, 0,
                    Mul(heap[a], heap[b], overflowChecks), NoOut, <<>>, <<>>)
    /\ UNCHANGED <<heap, bound, writes, overflowChecks>>

\* (a.clone() * b.clone()) * c.clone();  a.clone() * (b.clone() * c.clone());
\* out is the outcome of the first grouping, alt of the second.
DoMulMul(a, b, c) ==
    /\ last = Idle /\ a \in bound /\ b \in bound /\ c \in bound
    /\ last' = Call("mulmul", a, b, c, 0, 0, 0,
                    MulLeft(Mul(heap[a], heap[b], overflowChecks), heap[c], overflowChecks),
                    MulRight(heap[a], Mul(heap[b], heap[c], overflowChecks), overflowChecks),
                    <<>>, <<>>)
    /\ UNCHANGED <<heap, bound, writes, overflowChecks>>

\* a.transpose();
DoTranspose(a) ==
    /\ last = Idle /\ a \in bound
    /\ last' = Call("transpose", a, "-", "-", 0, 0, 0, Transpose(heap[a]), NoOut,
                    <<>>, <<>>)
    /\ UNCHANGED <<heap, bound, writes, overflowChecks>>

\* The statement ends without a panic: its temporaries are dropped.
EndStatement ==
    /\ last # Idle /\ ~Panicked
    /\ last' = Idle
    /\ UNCHANGED <<heap, bound, writes, overflowChecks>>

Next ==
    \/ \E s \in Slots, r \in 0..MaxDim, c \in 0..MaxDim : DoNew(s, r, c)
    \/ \E s \in Slots, n \in 0..MaxDim : DoIdentity(s, n)
    \/ \E s \in Mutable, lens \in LitLens : DoLiteral(s, lens)
    \/ \E s \in Slots : DoSize(s)
    \/ \E s \in Slots, i \in 0..MaxDim : DoIndex(s, i)
    \/ \E s \in Mutable, i \in 0..MaxDim, j \in 0..MaxDim, v \in WriteVals :
          DoIndexMut(s, i, j, v)
    \/ \E a \in Slots, b \in Slots : DoAddition(a, b)
    \/ \E a \in Slots, b \in Slots : DoMultiplication(a, b)
    \/ \E a \in Slots, b \in Slots, c \in Slots : DoMulMul(a, b, c)
    \/ \E a \in Slots : DoTranspose(a)
    \/ EndStatement

Spec == Init /\ [][Next]_vars

----------------------------------------------------------------------------
\* Vocabulary of the properties.

\* The shape invariant of the data model: data.len() == rows * cols.
Shaped(m) == Len(m.data) = m.rows * m.cols

\* Element (i, j): m[i][j], at flat offset i * cols + j.
Elem(m, i, j) == m.data[i * m.cols + j + 1]

\* Equal in shape and in every element.
SameMatrix(M, N) ==
    /\ M.rows = N.rows
    /\ M.cols = N.cols
    /\ \A i \in 0..(M.rows - 1), j \in 0..(M.cols - 1) : Elem(M, i, j) = Elem(N, i, j)

\* The scalar zero plus the products A[i][k'] * B[k'][j] for k' = 0..k-1,
\* accumulated in increasing k' with the scalar's own + and *.
RECURSIVE Dot(_, _, _, _, _)
Dot(A, B, i, j, k) ==
    IF k = 0 THEN Zero
    ELSE Wrap(Dot(A, B, i, j, k - 1) + Wrap(Elem(A, i, k - 1) * Elem(B, k - 1, j)))

\* The matrices the program holds: the bound variables and the results of
\* the last statement.
Matrices ==
    {heap[s] : s \in bound}
        \cup {last.out.res[n] : n \in 1..Len(last.out.res)}
        \cup {last.alt.res[n] : n \in 1..Len(last.alt.res)}

\* The operands of the last statement.
OpA == heap[last.a]
OpB == heap[last.b]
OpC == heap[last.c]
Result == last.out.res[1]

----------------------------------------------------------------------------
\* C1: every matrix a constructor (new, identity, a literal of rows of any
\* lengths) or an operation produces has data.len() == rows * cols.
C1_ShapeInvariant == \A m \in Matrices : Shaped(m)

\* C1, the part that holds: only a literal produces a matrix that breaks the
\* shape invariant; what new, identity, addition, multiplication and
\* transpose return satisfies it, whatever their operands.
C1_OnlyLiteralsBreakShape ==
    /\ last.op # "literal" => \A n \in 1..Len(last.out.res) : Shaped(last.out.res[n])
    /\ \A n \in 1..Len(last.alt.res) : Shaped(last.alt.res[n])

\* C2: multiplication of A (r x n) by B (n x c) returns the r x c matrix
\* whose element (i, j) is zero plus the products A[i][k] * B[k][j] in
\* increasing k (or panics in the scalar's own arithmetic, in a build that
\* checks overflow).
C2_MultiplicationResult ==
    (last.op = "multiplication" /\ OpA.cols = OpB.rows) =>
        \/ /\ last.out.kind = "ok"
           /\ Result.rows = OpA.rows
           /\ Result.cols = OpB.cols
           /\ Shaped(Result)
           /\ \A i \in 0..(OpA.rows - 1), j \in 0..(OpB.cols - 1) :
                 Elem(Result, i, j) = Dot(OpA, OpB, i, j, OpA.cols)
        \/ overflowChecks /\ last.out.kind = "overflow"

\* C2 on operands that satisfy the shape invariant.
C2_OnShaped ==
    (last.op = "multiplication" /\ Shaped(OpA) /\ Shaped(OpB)) => C2_MultiplicationResult

\* C3: multiplication with self.cols != other.rows, and addition with
\* different shapes, end in the assertion failure: no result matrix is
\* returned and no result element has been written.
C3_MismatchAsserts ==
    /\ (last.op = "multiplication" /\ OpA.cols # OpB.rows) =>
          last.out.kind = "assert" /\ last.out.res = <<>> /\ last.out.w = 0
    /\ (last.op = "addition" /\ <<OpA.rows, OpA.cols>> # <<OpB.rows, OpB.cols>>) =>
          last.out.kind = "assert" /\ last.out.res = <<>> /\ last.out.w = 0

\* C3 witness: a 2 x 1 matrix has been multiplied by a 2 x 2 matrix and the
\* call ended in the assertion failure.
C3_Witness ==
    /\ last.op = "multiplication"
    /\ Size(OpA) = <<2, 1>> /\ Size(OpB) = <<2, 2>>
    /\ last.out.kind = "assert"

\* C4: for a square A of order n, A * identity(n) and identity(n) * A
\* complete and equal A in shape and in every element.
C4_IdentityNeutral ==
    /\ (last.op = "multiplication" /\ OpA.rows = OpA.cols
          /\ Identity(OpA.rows).res = <<OpB>>) =>
          last.out.kind = "ok" /\ SameMatrix(Result, OpA)
    /\ (last.op = "multiplication" /\ OpB.rows = OpB.cols
          /\ Identity(OpB.rows).res = <<OpA>>) =>
          last.out.kind = "ok" /\ SameMatrix(Result, OpB)

\* C4 on operands that satisfy the shape invariant.
C4_OnShaped ==
    (last.op = "multiplication" /\ Shaped(OpA) /\ Shaped(OpB)) => C4_IdentityNeutral

\* C5: for A, B, C of r*n, n*m and m*c elements over an integer scalar,
\* (A*B)*C and A*(B*C) are equal in shape and in every element (or both
\* panic in the scalar's own arithmetic).
C5_Associative ==
    (last.op = "mulmul" /\ Shaped(OpA) /\ Shaped(OpB) /\ Shaped(OpC)
        /\ OpA.cols = OpB.rows /\ OpB.cols = OpC.rows) =>
        \/ /\ last.out.kind = "ok" /\ last.alt.kind = "ok"
           /\ SameMatrix(Result, last.alt.res[1])
        \/ last.out.kind = "overflow" /\ last.alt.kind = "overflow"

\* C5 in a build whose integer arithmetic wraps.
C5_WhenWrapping == ~overflowChecks => C5_Associative

\* C6: for a row index i >= rows, index(i) and index_mut(i) fail with the
\* out-of-bounds panic instead of returning a slice.
C6_RowIndexOutOfBounds ==
    (last.op \in {"index", "index_mut"} /\ last.i >= OpA.rows) =>
        last.out.kind = "oob"

\* C6 on matrices that satisfy the shape invariant and have a column.
C6_OnShapedWithColumns ==
    (last.op \in {"index", "index_mut"} /\ Shaped(OpA) /\ OpA.cols > 0)
        => C6_RowIndexOutOfBounds

\* C7: transpose(A) has shape (A.cols, A.rows) and element (j, i) equal to
\* A's (i, j), and its own transpose equals A in shape and in every element.
C7_Transpose ==
    last.op = "transpose" =>
        /\ last.out.kind = "ok"
        /\ Result.rows = OpA.cols
        /\ Result.cols = OpA.rows
        /\ \A i \in 0..(OpA.rows - 1), j \in 0..(OpA.cols - 1) :
              Elem(Result, j, i) = Elem(OpA, i, j)
        /\ Transpose(Result).kind = "ok"
        /\ SameMatrix(Transpose(Result).res[1], OpA)

\* C7 on matrices that satisfy the shape invariant.
C7_OnShaped == (last.op = "transpose" /\ Shaped(OpA)) => C7_Transpose

\* C8: addition of A and B of equal shape returns the matrix of that shape
\* whose element (i, j) is A[i][j] + B[i][j] (or panics in the scalar's own
\* arithmetic, in a build that checks overflow).
C8_AdditionResult ==
    (last.op = "addition" /\ Size(OpA) = Size(OpB)) =>
        \/ /\ last.out.kind = "ok"
           /\ Size(Result) = Size(OpA)
           /\ Shaped(Result)
           /\ \A i \in 0..(OpA.rows - 1), j \in 0..(OpA.cols - 1) :
                 Elem(Result, i, j) = Wrap(Elem(OpA, i, j) + Elem(OpB, i, j))
        \/ overflowChecks /\ last.out.kind = "overflow"

\* C8 on operands that satisfy the shape invariant.
C8_OnShaped == (last.op = "addition" /\ Shaped(OpA) /\ Shaped(OpB)) => C8_AdditionResult

\* C9: identity(n) returns a matrix of size (n, n) whose element (i, j) is
\* one when i == j and zero otherwise; identity(0) has no element.
C9_Identity ==
    last.op = "identity" =>
        /\ last.out.kind = "ok"
        /\ Size(Result) = <<last.i, last.i>>
        /\ Len(Result.data) = last.i * last.i
        /\ \A i \in 0..(last.i - 1), j \in 0..(last.i - 1) :
              Elem(Result, i, j) = IF i = j THEN One ELSE Zero
        /\ heap[last.a] = Result

\* C9 witness: identity(2) has returned [[1, 0], [0, 1]].
C9_Witness ==
    /\ last.op = "identity" /\ last.i = 2
    /\ last.out.kind = "ok"
    /\ Result.data = <<1, 0, 0, 1>>

\* C10: a step changes a matrix a variable already holds only by an indexed
\* write m[i][j] = v with i < rows and j < cols, and then it changes the
\* element at flat offset i * cols + j and nothing else: not m's shape, not
\* another element, not another matrix.
C10_Frame ==
    [][\A s \in bound :
          heap'[s] # heap[s] =>
              /\ last'.op = "index_mut" /\ last'.a = s
              /\ last'.i < heap[s].rows /\ last'.j < heap[s].cols
              /\ heap'[s] = [heap[s] EXCEPT
                               !.data[last'.i * heap[s].cols + last'.j + 1] = last'.v]
              /\ \A t \in bound \ {s} : heap'[t] = heap[t]]_vars

\* C10 on matrices that satisfy the shape invariant.
C10_OnShaped ==
    [][\A s \in bound :
          (Shaped(heap[s]) /\ heap'[s] # heap[s]) =>
              /\ last'.op = "index_mut" /\ last'.a = s
              /\ last'.i < heap[s].rows /\ last'.j < heap[s].cols
              /\ heap'[s] = [heap[s] EXCEPT
                               !.data[last'.i * heap[s].cols + last'.j + 1] = last'.v]
              /\ \A t \in bound \ {s} : heap'[t] = heap[t]]_vars

====
